---- MODULE Spec2Model ----
(***************************************************************************)
(* Guitar chord progression generator (main_3.py): the chord tables, the   *)
(* progression-to-notes functions, the MidiManager sink and the ChordApp   *)
(* playback session (main thread handlers, playback worker threads and     *)
(* preview-one-chord threads).                                             *)
(*                                                                         *)
(* Python strings are modelled as sequences of one-character strings, so   *)
(* that slicing, suffix tests and substring tests are computed as the code *)
(* computes them.  Python dicts are sequences of <<key, value>> pairs.     *)
(***************************************************************************)
EXTENDS Integers, Sequences, FiniteSets, Bags, TLC

(***************************************************************************)
(* Data tables                                                             *)
(***************************************************************************)
Deg == "°"

DIATONIC_MAJOR ==
  << << <<"C">>,     << <<"C">>, <<"D","m">>, <<"E","m">>, <<"F">>, <<"G">>, <<"A","m">>, <<"B","d","i","m">> >> >>,
     << <<"G">>,     << <<"G">>, <<"A","m">>, <<"B","m">>, <<"C">>, <<"D">>, <<"E","m">>, <<"F","#","d","i","m">> >> >>,
     << <<"D">>,     << <<"D">>, <<"E","m">>, <<"F","#","m">>, <<"G">>, <<"A">>, <<"B","m">>, <<"C","#","d","i","m">> >> >>,
     << <<"A">>,     << <<"A">>, <<"B","m">>, <<"C","#","m">>, <<"D">>, <<"E">>, <<"F","#","m">>, <<"G","#","d","i","m">> >> >>,
     << <<"E">>,     << <<"E">>, <<"F","#","m">>, <<"G","#","m">>, <<"A">>, <<"B">>, <<"C","#","m">>, <<"D","#","d","i","m">> >> >>,
     << <<"B">>,     << <<"B">>, <<"C","#","m">>, <<"D","#","m">>, <<"E">>, <<"F","#">>, <<"G","#","m">>, <<"A","#","d","i","m">> >> >>,
     << <<"F","#">>, << <<"F","#">>, <<"G","#","m">>, <<"A","#","m">>, <<"B">>, <<"C","#">>, <<"D","#","m">>, <<"E","#","d","i","m">> >> >>,
     << <<"G","b">>, << <<"G","b">>, <<"A","b","m">>, <<"B","b","m">>, <<"C","b">>, <<"D","b">>, <<"E","b","m">>, <<"F","d","i","m">> >> >>,
     << <<"F">>,     << <<"F">>, <<"G","m">>, <<"A","m">>, <<"B","b">>, <<"C">>, <<"D","m">>, <<"E","d","i","m">> >> >>,
     << <<"B","b">>, << <<"B","b">>, <<"C","m">>, <<"D","m">>, <<"E","b">>, <<"F">>, <<"G","m">>, <<"A","d","i","m">> >> >>,
     << <<"E","b">>, << <<"E","b">>, <<"F","m">>, <<"G","m">>, <<"A","b">>, <<"B","b">>, <<"C","m">>, <<"D","d","i","m">> >> >>,
     << <<"A","b">>, << <<"A","b">>, <<"B","b","m">>, <<"C","m">>, <<"D","b">>, <<"E","b">>, <<"F","m">>, <<"G","d","i","m">> >> >> >>

COMMON_PATTERNS ==
  << << "Pop",    << << <<"I">>, <<"V">>, <<"v","i">>, <<"I","V">> >>,
                     << <<"I">>, <<"v","i">>, <<"I","V">>, <<"V">> >>,
                     << <<"v","i">>, <<"I","V">>, <<"I">>, <<"V">> >> >> >>,
     << "Rock",   << << <<"I">>, <<"I","V">>, <<"V">>, <<"I","V">> >>,
                     << <<"I">>, <<"V">>, <<"I">>, <<"V">> >> >> >>,
     << "Ballad", << << <<"I">>, <<"v","i">>, <<"I","V">>, <<"V">> >>,
                     << <<"I">>, <<"V">>, <<"v","i">>, <<"I","V">> >> >> >>,
     << "Blues",  << << <<"I">>, <<"I","V">>, <<"I">>, <<"V">> >>,
                     << <<"I">>, <<"I">>, <<"I","V">>, <<"I">>, <<"V">>, <<"I","V">>, <<"I">>, <<"V">> >> >> >> >>

ROMAN_TO_INDEX ==
  << << <<"I">>, 0 >>, << <<"i","i">>, 1 >>, << <<"I","I">>, 1 >>,
     << <<"i","i","i">>, 2 >>, << <<"I","I","I">>, 2 >>, << <<"I","V">>, 3 >>,
     << <<"V">>, 4 >>, << <<"v","i">>, 5 >>, << <<"V","I">>, 5 >>,
     << <<"v","i","i",Deg>>, 6 >>, << <<"V","I","I">>, 6 >> >>

NOTE_TO_MIDI ==
  << << <<"C">>, 60 >>, << <<"C","#">>, 61 >>, << <<"D","b">>, 61 >>, << <<"D">>, 62 >>,
     << <<"D","#">>, 63 >>, << <<"E","b">>, 63 >>, << <<"E">>, 64 >>, << <<"F">>, 65 >>,
     << <<"F","#">>, 66 >>, << <<"G","b">>, 66 >>, << <<"G">>, 67 >>, << <<"G","#">>, 68 >>,
     << <<"A","b">>, 68 >>, << <<"A">>, 69 >>, << <<"A","#">>, 70 >>, << <<"B","b">>, 70 >>,
     << <<"B">>, 71 >> >>

\* dict.get(key, default) on a dict given as a sequence of <<key, value>> pairs
\* (a later pair with the same key wins, as in a Python dict literal).
DictGet(d, key, default) ==
  LET hits == {i \in 1..Len(d) : d[i][1] = key}
  IN  IF hits = {} THEN default
      ELSE d[CHOOSE i \in hits : \A j \in hits : j <= i][2]

DictKeys(d) == {d[i][1] : i \in 1..Len(d)}

(***************************************************************************)
(* Python string helpers                                                   *)
(***************************************************************************)
\* s.replace(c, '') for a one-character c
RECURSIVE StrRemove(_, _)
StrRemove(s, c) ==
  IF s = <<>> THEN <<>>
  ELSE IF Head(s) = c THEN StrRemove(Tail(s), c)
       ELSE <<Head(s)>> \o StrRemove(Tail(s), c)

\* s.endswith(c) for a one-character c
EndsWith(s, c) == Len(s) >= 1 /\ s[Len(s)] = c

\* sub in s
Contains(s, sub) ==
  \E i \in 0..(Len(s) - Len(sub)) : SubSeq(s, i + 1, i + Len(sub)) = sub

PyMax(a, b) == IF a >= b THEN a ELSE b
PyMin(a, b) == IF a <= b THEN a ELSE b

(***************************************************************************)
(* Music logic                                                             *)
(***************************************************************************)
roman_to_chord(roman, key) ==
  LET r1   == StrRemove(roman, Deg)
      add7 == EndsWith(r1, "7")
      r2   == IF add7 THEN SubSeq(r1, 1, Len(r1) - 1) ELSE r1
      idx  == DictGet(ROMAN_TO_INDEX, r2, 0)
      chords == DictGet(DIATONIC_MAJOR, key, DictGet(DIATONIC_MAJOR, <<"C">>, <<>>))
      base == chords[idx + 1]
  IN  IF add7 THEN base \o <<"7">> ELSE base

\* a generate_progression whose loop test is `len(prog) <= bars`
RECURSIVE ProgressionOneMore(_, _, _, _)
ProgressionOneMore(pattern, key, bars, prog) ==
  IF Len(prog) <= bars
  THEN ProgressionOneMore(pattern, key, bars,
         Append(prog, roman_to_chord(pattern[(Len(prog) % Len(pattern)) + 1], key)))
  ELSE prog

\* generate_progression with the pattern random.choice picked given as `pattern`
RECURSIVE ProgressionFrom(_, _, _, _)
ProgressionFrom(pattern, key, bars, prog) ==
  IF Len(prog) < bars
  THEN ProgressionFrom(pattern, key, bars,
         Append(prog, roman_to_chord(pattern[(Len(prog) % Len(pattern)) + 1], key)))
  ELSE prog

StylePatterns(style) ==
  LET patterns == DictGet(COMMON_PATTERNS, style, DictGet(COMMON_PATTERNS, "Pop", <<>>))
  IN  {patterns[i] : i \in 1..Len(patterns)}

generate_progression(key, style, bars) ==
  {ProgressionFrom(pattern, key, bars, <<>>) : pattern \in StylePatterns(style)}

parse_chord_name(chord_name) ==
  IF Len(chord_name) >= 2 /\ chord_name[2] \in {"#", "b"}
  THEN <<SubSeq(chord_name, 1, 2), SubSeq(chord_name, 3, Len(chord_name))>>
  ELSE <<SubSeq(chord_name, 1, 1), SubSeq(chord_name, 2, Len(chord_name))>>

\* a quality test whose first branch lacks `'maj' not in ctype`
ChordIntervalsNoMajTest(ctype) ==
  IF Contains(ctype, <<"m">>) /\ ~Contains(ctype, <<"7">>)
  THEN <<0, 3, 7>>
  ELSE IF Contains(ctype, <<"7">>)
       THEN IF Contains(ctype, <<"m","a","j">>) \/ Contains(ctype, <<"M">>)
            THEN <<0, 4, 7, 11>>
            ELSE IF Contains(ctype, <<"m">>) THEN <<0, 3, 7, 10>>
                 ELSE <<0, 4, 7, 10>>
       ELSE <<0, 4, 7>>

ChordIntervals(ctype) ==
  IF Contains(ctype, <<"m">>) /\ ~Contains(ctype, <<"m","a","j">>) /\ ~Contains(ctype, <<"7">>)
  THEN <<0, 3, 7>>
  ELSE IF Contains(ctype, <<"7">>)
       THEN IF Contains(ctype, <<"m","a","j">>) \/ Contains(ctype, <<"M">>)
            THEN <<0, 4, 7, 11>>
            ELSE IF Contains(ctype, <<"m">>) THEN <<0, 3, 7, 10>>
                 ELSE <<0, 4, 7, 10>>
       ELSE <<0, 4, 7>>

\* an inversion that pops the last pitch: notes.pop() for notes.pop(0)
RECURSIVE InvertPopLast(_, _)
InvertPopLast(notes, inversion) ==
  IF inversion <= 0 \/ notes = <<>> THEN notes
  ELSE InvertPopLast(Append(SubSeq(notes, 1, Len(notes) - 1),
                            notes[Len(notes)] + 12), inversion - 1)

\* an inversion that appends the popped pitch as it is, without the + 12
RECURSIVE InvertNoRaise(_, _)
InvertNoRaise(notes, inversion) ==
  IF inversion <= 0 \/ notes = <<>> THEN notes
  ELSE InvertNoRaise(Append(Tail(notes), Head(notes)), inversion - 1)

RECURSIVE Invert(_, _)
Invert(notes, inversion) ==
  IF inversion <= 0 \/ notes = <<>> THEN notes
  ELSE Invert(Append(Tail(notes), Head(notes) + 12), inversion - 1)

\* a clamp with the upper limit only: min(127, n)
ClampTopOnly(n) == PyMin(127, n)

Clamp(n) == PyMax(0, PyMin(127, n))

chord_to_midi_notes(chord_name, octave, inversion) ==
  LET parsed    == parse_chord_name(chord_name)
      root_note == DictGet(NOTE_TO_MIDI, parsed[1], 60) + octave
      iv        == ChordIntervals(parsed[2])
      notes     == [j \in 1..Len(iv) |-> root_note + iv[j]]
      inv       == Invert(notes, inversion)
  IN  [j \in 1..Len(inv) |-> Clamp(inv[j])]

\* a call site that passes the octave-shift control as it is, without `* 12`
CallerVoicingNoTwelve(chord, octave_var, inversion_var) ==
  chord_to_midi_notes(chord, octave_var, inversion_var)

\* the voicing as lines 419 and 488 ask for it: the octave-shift control times
\* twelve is the `octave` argument, the inversion control the `inversion`
CallerVoicing(chord, octave_var, inversion_var) ==
  chord_to_midi_notes(chord, octave_var * 12, inversion_var)

\* root = chord_name[0] of parse_chord_name raises IndexError on the empty name
voice_raises(chord_name) == Len(chord_name) = 0

(***************************************************************************)
(* Bounds of the model and the inputs the handlers draw                    *)
(***************************************************************************)
MaxWorkers  == 2   \* thread objects on_play can create
MaxPreviews == 1   \* preview-one-chord threads alive at the same time
MaxBars     == 1   \* largest bar count entered before Generate
MaxEdits    == 1   \* control changes made by the user in one run
CountCap    == 2   \* call counters saturate here ("2 or more")

Workers  == {<<"worker", n>> : n \in 1..MaxWorkers}
Previews == {<<"preview", n>> : n \in 1..MaxPreviews}
Main     == <<"main", 0>>
Players  == Workers \cup Previews
Threads  == Players \cup {Main}

NoThread == <<"none", 0>>   \* play_thread = None
NoHandle == 0               \* MidiManager.output = None
NoDevice == -1              \* MidiManager.device_id = None

GenKeys   == {<<"C">>}
GenStyles == {"Rock"}

\* values the user can give each control (widget ranges, lines 287-325)
ControlValues ==
  [ tempo_var      |-> {90, 40},
    play_style_var |-> {"Block", "Arp"},
    loop_var       |-> {FALSE, TRUE},
    inversion_var  |-> {0, 1},
    octave_var     |-> {0, 1},
    velocity_var   |-> {100, 30},
    humanize_var   |-> {30, 0} ]

\* what the MIDI device combobox can hold: auto, the placeholder shown when no
\* output was detected, or "<id>: <name>" for a device id
MidiChoices == {"(Auto)", "(No MIDI output detected)", "0: synth"}

\* int(choice.split(':')[0]) for the "<id>: <name>" choice
ChoiceDeviceId(choice) == 0


\* the output-capable device ids the MIDI subsystem reports, in its order
OutputDevices == <<0>>

NumPitches == 128

Inc(n) == IF n < CountCap THEN n + 1 ELSE n

(***************************************************************************)
(* State                                                                   *)
(***************************************************************************)
VARIABLES
  current_progression,  \* ChordApp.current_progression
  play_thread,          \* ChordApp.play_thread: NoThread or a worker thread
  play_flag,            \* ChordApp.play_flag (threading.Event)
  ctl,                  \* the control variables (tempo_var, loop_var, ...)
  edits,                \* control changes made so far
  highlight,            \* last highlight request posted with root.after
  stopFor,              \* the worker alive when the pending on_stop was issued
  pc,                   \* where each thread is (main, workers, previews)
  loc,                  \* the locals of each worker / preview thread
  initialized,          \* MidiManager.initialized
  output,               \* MidiManager.output: NoHandle or a device handle
  device_id,            \* MidiManager.device_id
  lock,                 \* threads inside `with self.lock`
  openHandles,          \* device handles open in the MIDI subsystem
  sounding,             \* pitches sounding on the handle `output`
  stuck,                \* pitches left sounding on the handle close() released
  call                  \* one call of a music-logic function: arguments, result

vars == <<current_progression, play_thread, play_flag, ctl, edits, highlight,
          stopFor, pc, loc, initialized, output, device_id, lock,
          openHandles, sounding, stuck, call>>

appVars  == <<current_progression, play_thread, play_flag, ctl, edits, stopFor,
             call>>
sinkVars == <<initialized, output, device_id, openHandles, sounding, stuck>>

DefaultControls ==
  [ tempo_var |-> 90, play_style_var |-> "Block", loop_var |-> FALSE,
    inversion_var |-> 0, octave_var |-> 0, velocity_var |-> 100, humanize_var |-> 30 ]

NoHighlight == [kind |-> "none", idx |-> 0]

\* no call of a music-logic function made
NoCall ==
  [ op |-> "none", roman |-> <<>>, key |-> <<>>, style |-> "", bars |-> 0,
    pattern |-> <<>>, chord |-> <<>>, octave |-> 0, inversion |-> 0,
    out |-> <<>>, raised |-> FALSE, done |-> FALSE ]

\* locals of a thread that has not started; the fields after `raised` record
\* what the thread has done (calls made, requests seen) and steer nothing
NoLocals ==
  [ chord |-> <<>>, target |-> NoDevice, progression |-> <<>>, i |-> 0,
    tempo |-> 0, play_style |-> "", loop |-> FALSE, vel |-> 0, humanize |-> 0,
    snapped |-> FALSE, notes |-> <<>>, k |-> 1, raised |-> FALSE,
    held |-> EmptyBag, stopped |-> FALSE, stop_mid_arp |-> FALSE,
    ons_after_stop |-> 0, passes |-> 0, clears |-> 0, offs |-> 0, stop_offs |-> 0 ]

\* what stays known of a thread that has ended: the calls it made
Ended(l) ==
  [NoLocals EXCEPT !.held = l.held, !.clears = l.clears, !.offs = l.offs,
                   !.stopped = l.stopped, !.stop_mid_arp = l.stop_mid_arp,
                   !.stop_offs = l.stop_offs]

\* Thread.is_alive()
IsAlive(t) == pc[t] \notin {"none", "done"}

\* the program after MidiManager() and ChordApp.__init__
ProgramInit ==
  /\ current_progression = <<>>
  /\ play_thread = NoThread
  /\ play_flag = FALSE
  /\ ctl = DefaultControls
  /\ edits = 0
  /\ highlight = NoHighlight
  /\ stopFor = NoThread
  /\ pc = [t \in Threads |-> IF t = Main THEN "idle" ELSE "none"]
  /\ loc = [t \in Players |-> NoLocals]
  /\ initialized = TRUE
  /\ output = NoHandle
  /\ device_id = NoDevice
  /\ lock = {}
  /\ openHandles = {}
  /\ sounding = {}
  /\ stuck = {}

Init == ProgramInit /\ call = NoCall

(***************************************************************************)
(* MidiManager: the lock                                                   *)
(***************************************************************************)
\* the statements that are `with self.lock:` entries, and the position inside
LockPcs == {"open_lock", "blk_on", "blk_off", "arp_on", "arp_off", "fin_off",
            "pv_on", "pv_off", "stop_off", "close_lock"}

CsPc(p) ==
  CASE p = "open_lock"  -> "open_cs"
    [] p = "blk_on"     -> "blk_on_cs"
    [] p = "blk_off"    -> "blk_off_cs"
    [] p = "arp_on"     -> "arp_on_cs"
    [] p = "arp_off"    -> "arp_off_cs"
    [] p = "fin_off"    -> "fin_off_cs"
    [] p = "pv_on"      -> "pv_on_cs"
    [] p = "pv_off"     -> "pv_off_cs"
    [] p = "stop_off"   -> "stop_off_cs"
    [] p = "close_lock" -> "close_cs"

\* a lock entered without waiting for its holder
AcquireNoWait(t) ==
  /\ pc[t] \in LockPcs
  /\ lock' = lock \cup {t}
  /\ pc' = [pc EXCEPT ![t] = CsPc(pc[t])]
  /\ UNCHANGED <<appVars, highlight, loc, sinkVars>>

\* `with self.lock:` (threading.Lock.acquire): blocks while another holds it
Acquire(t) ==
  /\ pc[t] \in LockPcs
  /\ lock = {}
  /\ lock' = {t}
  /\ pc' = [pc EXCEPT ![t] = CsPc(pc[t])]
  /\ UNCHANGED <<appVars, highlight, loc, sinkVars>>

\* MidiManager.init(): pygame.midi.init() succeeds (ok) or raises
InitResult(ok) == initialized \/ ok

\* the handle pygame.midi.Output returns: one that is not open
FreshHandle(open) ==
  CHOOSE h \in 1..(Cardinality(open) + 1) :
    h \notin open /\ \A g \in 1..(h - 1) : g \in open

(***************************************************************************)
(* MidiManager: what each method does inside the lock                      *)
(***************************************************************************)
Release(t) == lock' = lock \ {t}

\* self.output.note_on(note, vel) when a device is open
SinkNoteOn(note) ==
  /\ sounding' = IF output # NoHandle THEN sounding \cup {note} ELSE sounding
  /\ UNCHANGED <<initialized, output, device_id, openHandles, stuck>>

\* self.output.note_off(note, 0) when a device is open
SinkNoteOff(note) ==
  /\ sounding' = IF output # NoHandle THEN sounding \ {note} ELSE sounding
  /\ UNCHANGED <<initialized, output, device_id, openHandles, stuck>>

\* for n in range(128): self.output.note_off(n, 0), when a device is open
SinkAllNotesOff ==
  /\ sounding' = IF output # NoHandle THEN sounding \ (0..(NumPitches - 1)) ELSE sounding
  /\ UNCHANGED <<initialized, output, device_id, openHandles, stuck>>

\* open_output that leaves the handle it replaces open
SinkOpenNoClose(device, ok) ==
  IF ok /\ initialized /\ \E j \in 1..Len(OutputDevices) : OutputDevices[j] = device
  THEN /\ output' = FreshHandle(openHandles)
       /\ openHandles' = openHandles \cup {output'}
       /\ device_id' = device
       /\ sounding' = {}
       /\ UNCHANGED <<initialized, stuck>>
  ELSE /\ output' = NoHandle
       /\ sounding' = {}
       /\ UNCHANGED <<initialized, device_id, openHandles, stuck>>

\* open_output whose except branch forgets `self.output = None`
SinkOpenKeepsOnFailure(device, ok) ==
  LET remaining == openHandles \ {output}
  IN  IF ok /\ initialized /\ \E j \in 1..Len(OutputDevices) : OutputDevices[j] = device
      THEN /\ output' = FreshHandle(remaining)
           /\ openHandles' = remaining \cup {output'}
           /\ device_id' = device
           /\ sounding' = {}
           /\ UNCHANGED <<initialized, stuck>>
      ELSE /\ openHandles' = remaining
           /\ sounding' = {}
           /\ UNCHANGED <<initialized, output, device_id, stuck>>

\* the body of open_output: close the open handle, then pygame.midi.Output(device),
\* which returns a handle (ok, the subsystem is up and has the device) or raises
SinkOpen(device, ok) ==
  LET remaining == openHandles \ {output}
  IN  IF ok /\ initialized /\ \E j \in 1..Len(OutputDevices) : OutputDevices[j] = device
      THEN /\ output' = FreshHandle(remaining)
           /\ openHandles' = remaining \cup {output'}
           /\ device_id' = device
           /\ sounding' = {}
           /\ UNCHANGED <<initialized, stuck>>
      ELSE /\ output' = NoHandle
           /\ openHandles' = remaining
           /\ sounding' = {}
           /\ UNCHANGED <<initialized, device_id, stuck>>

\* the body of close: release the handle, then pygame.midi.quit()
SinkClose ==
  /\ stuck' = IF output # NoHandle THEN sounding ELSE stuck
  /\ sounding' = {}
  /\ output' = NoHandle
  /\ openHandles' = IF initialized THEN {} ELSE openHandles \ {output}
  /\ initialized' = FALSE
  /\ UNCHANGED device_id

(***************************************************************************)
(* ensure_midi_open / open_output, run by workers and previews             *)
(***************************************************************************)
AfterEnsure(t) == IF t \in Workers THEN "snapshot" ELSE "pv_voice"

\* ensure_midi_open up to the lock of open_output: the device choice, the
\* init() of list_devices (auto, or the choice is no "<id>: <name>"), and the
\* init() open_output makes before it takes the lock
EnsureMidiOpen(t) ==
  /\ pc[t] = "ensure"
  /\ \E choice \in MidiChoices, ok \in BOOLEAN :
       IF choice \in {"(Auto)", "(No MIDI output detected)"}
       THEN LET outputs == IF InitResult(ok) THEN OutputDevices ELSE <<>>
            IN  /\ initialized' = InitResult(ok)
                /\ IF outputs # <<>>
                   THEN /\ pc' = [pc EXCEPT ![t] = "open_lock"]
                        /\ loc' = [loc EXCEPT ![t].target = outputs[1]]
                   ELSE /\ pc' = [pc EXCEPT ![t] = AfterEnsure(t)]
                        /\ UNCHANGED loc
       ELSE /\ initialized' = InitResult(ok)
            /\ pc' = [pc EXCEPT ![t] = "open_lock"]
            /\ loc' = [loc EXCEPT ![t].target = ChoiceDeviceId(choice)]
  /\ UNCHANGED <<appVars, highlight, lock, output, device_id, openHandles,
                 sounding, stuck>>

\* open_output inside the lock
OpenBody(t) ==
  /\ pc[t] = "open_cs"
  /\ \E ok \in BOOLEAN : SinkOpen(loc[t].target, ok)
  /\ Release(t)
  /\ pc' = [pc EXCEPT ![t] = AfterEnsure(t)]
  /\ UNCHANGED <<appVars, highlight, loc>>

(***************************************************************************)
(* play_progression_loop, run by a worker thread                           *)
(***************************************************************************)
\* the worker's locals after lines 473-479
SnapshotOf(l) ==
  [l EXCEPT !.tempo = ctl.tempo_var, !.progression = current_progression,
            !.play_style = ctl.play_style_var, !.loop = ctl.loop_var,
            !.vel = ctl.velocity_var, !.humanize = ctl.humanize_var,
            !.snapped = TRUE]

WSnapshot(w) ==
  /\ pc[w] = "snapshot"
  /\ loc' = [loc EXCEPT ![w] = SnapshotOf(loc[w])]
  /\ pc' = [pc EXCEPT ![w] = "while"]
  /\ UNCHANGED <<appVars, highlight, lock, sinkVars>>

\* the finally block up to its call of all_notes_off: clear_highlight()
Finally(w, l) ==
  /\ pc' = [pc EXCEPT ![w] = "fin_off"]
  /\ highlight' = [kind |-> "clear", idx |-> 0]
  /\ loc' = [loc EXCEPT ![w] = [l EXCEPT !.clears = Inc(@)]]

\* `if loop: break`, the test of `loop` the wrong way round
AfterPassInverted(w, l) ==
  IF l.loop
  THEN Finally(w, l)
  ELSE /\ pc' = [pc EXCEPT ![w] = "while"]
       /\ loc' = [loc EXCEPT ![w] = l]
       /\ UNCHANGED highlight

\* `if not loop: break`, then the `while` line again
AfterPass(w, l) ==
  IF ~l.loop
  THEN Finally(w, l)
  ELSE /\ pc' = [pc EXCEPT ![w] = "while"]
       /\ loc' = [loc EXCEPT ![w] = l]
       /\ UNCHANGED highlight

\* a loop that returns, with no finally, when it finds the flag cleared
WWhileReturns(w) ==
  /\ pc[w] = "while"
  /\ IF play_flag
     THEN /\ pc' = [pc EXCEPT ![w] = "for"]
          /\ loc' = [loc EXCEPT ![w].i = 0]
     ELSE /\ pc' = [pc EXCEPT ![w] = "done"]
          /\ loc' = [loc EXCEPT ![w] = Ended(@)]
  /\ UNCHANGED <<appVars, highlight, lock, sinkVars>>

\* while self.play_flag.is_set():
WWhile(w) ==
  /\ pc[w] = "while"
  /\ IF play_flag
     THEN /\ pc' = [pc EXCEPT ![w] = "for"]
          /\ loc' = [loc EXCEPT ![w].i = 0]
          /\ UNCHANGED highlight
     ELSE Finally(w, loc[w])
  /\ UNCHANGED <<appVars, lock, sinkVars>>

\* a chord loop without the call of highlight_chord_button
WForSkipsHighlight(w) ==
  /\ pc[w] = "for"
  /\ LET l == loc[w]
     IN  IF l.i >= Len(l.progression)
         THEN AfterPass(w, [l EXCEPT !.passes = Inc(@)])
         ELSE IF ~play_flag
              THEN AfterPass(w, l)
              ELSE /\ pc' = [pc EXCEPT ![w] = "voice"]
                   /\ UNCHANGED <<highlight, loc>>
  /\ UNCHANGED <<appVars, lock, sinkVars>>

\* for i, chord in enumerate(progression): the flag check and the highlight
WFor(w) ==
  /\ pc[w] = "for"
  /\ LET l == loc[w]
     IN  IF l.i >= Len(l.progression)
         THEN AfterPass(w, [l EXCEPT !.passes = Inc(@)])
         ELSE IF ~play_flag
              THEN AfterPass(w, l)
              ELSE /\ highlight' = [kind |-> "chord", idx |-> l.i]
                   /\ pc' = [pc EXCEPT ![w] = "voice"]
                   /\ UNCHANGED loc
  /\ UNCHANGED <<appVars, lock, sinkVars>>

\* line 488: the live reads of octave_var and inversion_var (IntVar.get() of a
\* Spinbox raises when its text is no integer, and the exception leaves the
\* loop through finally), then the voicing
WVoice(w) ==
  /\ pc[w] = "voice"
  /\ LET l == loc[w]
     IN  \E raises \in BOOLEAN :
           IF raises
           THEN Finally(w, [l EXCEPT !.raised = TRUE])
           ELSE /\ loc' = [loc EXCEPT ![w] =
                     [l EXCEPT !.notes = CallerVoicing(l.progression[l.i + 1],
                                            ctl.octave_var, ctl.inversion_var),
                               !.k = 1]]
                /\ pc' = [pc EXCEPT ![w] =
                            IF l.play_style = "Block" THEN "blk_on" ELSE "arp_chk"]
                /\ UNCHANGED highlight
  /\ UNCHANGED <<appVars, lock, sinkVars>>

\* the locals after the worker's call MIDI.note_on(n, vel)
AfterNoteOn(l) ==
  [l EXCEPT !.held = @ (+) SetToBag({l.notes[l.k]}),
            !.ons_after_stop = IF play_flag THEN @ ELSE Inc(@)]

\* the locals after the worker's call MIDI.note_off(n)
AfterNoteOff(l) == [l EXCEPT !.held = @ (-) SetToBag({l.notes[l.k]})]

\* Block: for n in notes: MIDI.note_on(n, vel); then the sleep
WBlockNoteOn(w) ==
  /\ pc[w] = "blk_on_cs"
  /\ LET l == AfterNoteOn(loc[w])
     IN  /\ SinkNoteOn(loc[w].notes[loc[w].k])
         /\ IF l.k < Len(l.notes)
            THEN /\ loc' = [loc EXCEPT ![w] = [l EXCEPT !.k = @ + 1]]
                 /\ pc' = [pc EXCEPT ![w] = "blk_on"]
            ELSE /\ loc' = [loc EXCEPT ![w] = [l EXCEPT !.k = 1]]
                 /\ pc' = [pc EXCEPT ![w] = "blk_off"]
  /\ Release(w)
  /\ UNCHANGED <<appVars, highlight>>

\* Block: for n in notes: MIDI.note_off(n); then the next chord
WBlockNoteOff(w) ==
  /\ pc[w] = "blk_off_cs"
  /\ LET l == AfterNoteOff(loc[w])
     IN  /\ SinkNoteOff(loc[w].notes[loc[w].k])
         /\ IF l.k < Len(l.notes)
            THEN /\ loc' = [loc EXCEPT ![w] = [l EXCEPT !.k = @ + 1]]
                 /\ pc' = [pc EXCEPT ![w] = "blk_off"]
            ELSE /\ loc' = [loc EXCEPT ![w] = [l EXCEPT !.k = 1, !.i = @ + 1]]
                 /\ pc' = [pc EXCEPT ![w] = "for"]
  /\ Release(w)
  /\ UNCHANGED <<appVars, highlight>>

\* Arpeggio: for n in notes: if not self.play_flag.is_set(): break
WArpCheck(w) ==
  /\ pc[w] = "arp_chk"
  /\ LET l == loc[w]
     IN  IF l.k > Len(l.notes) \/ ~play_flag
         THEN \* time.sleep(0.05), then the next chord
              /\ loc' = [loc EXCEPT ![w] = [l EXCEPT !.k = 1, !.i = @ + 1]]
              /\ pc' = [pc EXCEPT ![w] = "for"]
         ELSE /\ pc' = [pc EXCEPT ![w] = "arp_on"]
              /\ UNCHANGED loc
  /\ UNCHANGED <<appVars, highlight, lock, sinkVars>>

\* an arpeggio that tests the flag after note_on and breaks before note_off
WArpNoteOnBreaks(w) ==
  /\ pc[w] = "arp_on_cs"
  /\ SinkNoteOn(loc[w].notes[loc[w].k])
  /\ IF play_flag
     THEN /\ loc' = [loc EXCEPT ![w] = AfterNoteOn(loc[w])]
          /\ pc' = [pc EXCEPT ![w] = "arp_off"]
     ELSE /\ loc' = [loc EXCEPT ![w] = [AfterNoteOn(loc[w]) EXCEPT !.k = 1, !.i = @ + 1]]
          /\ pc' = [pc EXCEPT ![w] = "for"]
  /\ Release(w)
  /\ UNCHANGED <<appVars, highlight>>

\* Arpeggio: MIDI.note_on(n, vel); then the sleep
WArpNoteOn(w) ==
  /\ pc[w] = "arp_on_cs"
  /\ SinkNoteOn(loc[w].notes[loc[w].k])
  /\ loc' = [loc EXCEPT ![w] = AfterNoteOn(loc[w])]
  /\ pc' = [pc EXCEPT ![w] = "arp_off"]
  /\ Release(w)
  /\ UNCHANGED <<appVars, highlight>>

\* Arpeggio: MIDI.note_off(n)
WArpNoteOff(w) ==
  /\ pc[w] = "arp_off_cs"
  /\ SinkNoteOff(loc[w].notes[loc[w].k])
  /\ loc' = [loc EXCEPT ![w] = [AfterNoteOff(loc[w]) EXCEPT !.k = @ + 1]]
  /\ pc' = [pc EXCEPT ![w] = "arp_chk"]
  /\ Release(w)
  /\ UNCHANGED <<appVars, highlight>>

\* a finally that leaves all_notes_off to on_stop when the flag is cleared
WFinalOffUnlessStopped(w) ==
  /\ pc[w] = "fin_off_cs"
  /\ IF play_flag
     THEN /\ SinkAllNotesOff
          /\ loc' = [loc EXCEPT ![w] = Ended([@ EXCEPT !.offs = Inc(@)])]
     ELSE /\ UNCHANGED sinkVars
          /\ loc' = [loc EXCEPT ![w] = Ended(@)]
  /\ pc' = [pc EXCEPT ![w] = "done"]
  /\ Release(w)
  /\ UNCHANGED <<appVars, highlight>>

\* finally: MIDI.all_notes_off(); self.set_status('Ready'); the thread ends
WFinalOff(w) ==
  /\ pc[w] = "fin_off_cs"
  /\ SinkAllNotesOff
  /\ loc' = [loc EXCEPT ![w] = Ended([@ EXCEPT !.offs = Inc(@)])]
  /\ pc' = [pc EXCEPT ![w] = "done"]
  /\ Release(w)
  /\ UNCHANGED <<appVars, highlight>>

(***************************************************************************)
(* safe_play_chord, run by a preview thread                                *)
(***************************************************************************)
\* line 419-420: the voicing and the velocity (a read that raises ends the
\* thread in the except branch)
PvVoice(p) ==
  /\ pc[p] = "pv_voice"
  /\ \E raises \in BOOLEAN :
       IF raises
       THEN /\ pc' = [pc EXCEPT ![p] = "done"]
            /\ loc' = [loc EXCEPT ![p] = NoLocals]
       ELSE /\ pc' = [pc EXCEPT ![p] = "pv_on"]
            /\ loc' = [loc EXCEPT ![p] =
                 [@ EXCEPT !.notes = CallerVoicing(loc[p].chord,
                                        ctl.octave_var, ctl.inversion_var),
                           !.vel = ctl.velocity_var, !.k = 1]]
  /\ UNCHANGED <<appVars, highlight, lock, sinkVars>>

\* for n in notes: MIDI.note_on(n, vel); then time.sleep(0.9)
PvNoteOn(p) ==
  /\ pc[p] = "pv_on_cs"
  /\ SinkNoteOn(loc[p].notes[loc[p].k])
  /\ IF loc[p].k < Len(loc[p].notes)
     THEN /\ loc' = [loc EXCEPT ![p].k = @ + 1]
          /\ pc' = [pc EXCEPT ![p] = "pv_on"]
     ELSE /\ loc' = [loc EXCEPT ![p].k = 1]
          /\ pc' = [pc EXCEPT ![p] = "pv_off"]
  /\ Release(p)
  /\ UNCHANGED <<appVars, highlight>>

\* for n in notes: MIDI.note_off(n)
PvNoteOff(p) ==
  /\ pc[p] = "pv_off_cs"
  /\ SinkNoteOff(loc[p].notes[loc[p].k])
  /\ IF loc[p].k < Len(loc[p].notes)
     THEN /\ loc' = [loc EXCEPT ![p].k = @ + 1]
          /\ pc' = [pc EXCEPT ![p] = "pv_off"]
     ELSE /\ loc' = [loc EXCEPT ![p] = NoLocals]
          /\ pc' = [pc EXCEPT ![p] = "done"]
  /\ Release(p)
  /\ UNCHANGED <<appVars, highlight>>

(***************************************************************************)
(* ChordApp handlers, run by the main thread one at a time                 *)
(***************************************************************************)
MainIs(p) == pc[Main] = p

WorkerAlive == play_thread # NoThread /\ IsAlive(play_thread)

\* threading.Thread(...): a thread object that is not running
NewThread(pool) ==
  CHOOSE t \in pool : ~IsAlive(t) /\ \A u \in pool : ~IsAlive(u) => t[2] <= u[2]

\* on_generate: the key, style and bar count are what the user entered
OnGenerate ==
  /\ MainIs("idle")
  /\ \E key \in GenKeys, style \in GenStyles, bars \in 1..MaxBars :
       \E progression \in generate_progression(key, style, bars) :
         current_progression' = progression
  /\ UNCHANGED <<call, play_thread, play_flag, ctl, edits, stopFor, highlight, pc, loc,
                 lock, sinkVars>>

\* the user moves one control (slider, spinbox, radio button, check box)
SetControl ==
  /\ MainIs("idle")
  /\ edits < MaxEdits
  /\ \E f \in DOMAIN ControlValues :
       \E v \in ControlValues[f] \ {ctl[f]} : ctl' = [ctl EXCEPT ![f] = v]
  /\ edits' = edits + 1
  /\ UNCHANGED <<call, current_progression, play_thread, play_flag, stopFor, highlight,
                 pc, loc, lock, sinkVars>>

\* the start of a worker: play_flag.set(), Thread(...).start()
StartWorker ==
  /\ \E t \in Workers : ~IsAlive(t)
  /\ LET w == NewThread(Workers)
     IN  /\ play_flag' = TRUE
         /\ play_thread' = w
         /\ pc' = [pc EXCEPT ![w] = "ensure"]
         /\ loc' = [loc EXCEPT ![w] = NoLocals]
  /\ UNCHANGED <<call, current_progression, ctl, edits, stopFor, highlight, lock,
                 sinkVars>>

\* on_play without the is_alive test
OnPlayNoAliveCheck ==
  /\ MainIs("idle")
  /\ IF current_progression = <<>>
     THEN /\ pc' = [pc EXCEPT ![Main] = "msg_generate_first"]
          /\ UNCHANGED <<appVars, highlight, loc, lock, sinkVars>>
     ELSE StartWorker

\* on_play
OnPlay ==
  /\ MainIs("idle")
  /\ IF current_progression = <<>>
     THEN /\ pc' = [pc EXCEPT ![Main] = "msg_generate_first"]
          /\ UNCHANGED <<appVars, highlight, loc, lock, sinkVars>>
     ELSE IF WorkerAlive
          THEN /\ pc' = [pc EXCEPT ![Main] = "msg_already_playing"]
               /\ UNCHANGED <<appVars, highlight, loc, lock, sinkVars>>
          ELSE StartWorker

\* the user closes the messagebox.showinfo dialog on_play opened
DismissInfo ==
  /\ pc[Main] \in {"msg_generate_first", "msg_already_playing"}
  /\ pc' = [pc EXCEPT ![Main] = "idle"]
  /\ UNCHANGED <<appVars, highlight, loc, lock, sinkVars>>

\* a chord button: Thread(target=self.safe_play_chord, args=(c,)).start()
PreviewClick ==
  /\ MainIs("idle")
  /\ \E t \in Previews : ~IsAlive(t)
  /\ \E n \in 1..Len(current_progression) :
       LET p == NewThread(Previews)
       IN  /\ pc' = [pc EXCEPT ![p] = "ensure"]
           /\ loc' = [loc EXCEPT ![p] = [NoLocals EXCEPT !.chord = current_progression[n]]]
  /\ UNCHANGED <<appVars, highlight, lock, sinkVars>>

\* the worker is inside the arpeggio's `for n in notes` loop with notes left
MidArpeggio(w) ==
  /\ pc[w] \in {"arp_chk", "arp_on", "arp_on_cs", "arp_off", "arp_off_cs"}
  /\ loc[w].k <= Len(loc[w].notes)

\* on_stop up to its call of all_notes_off
OnStop ==
  /\ MainIs("idle")
  /\ play_flag' = FALSE
  /\ stopFor' = IF WorkerAlive THEN play_thread ELSE NoThread
  /\ loc' = IF WorkerAlive /\ play_flag
            THEN [loc EXCEPT ![play_thread].stopped = TRUE,
                             ![play_thread].stop_mid_arp = MidArpeggio(play_thread)]
            ELSE loc
  /\ pc' = [pc EXCEPT ![Main] = "stop_off"]
  /\ UNCHANGED <<call, current_progression, play_thread, ctl, edits, highlight, lock,
                 sinkVars>>

\* on_stop: MIDI.all_notes_off() inside the lock
StopAllNotesOff ==
  /\ MainIs("stop_off_cs")
  /\ SinkAllNotesOff
  /\ loc' = IF stopFor # NoThread
            THEN [loc EXCEPT ![stopFor].stop_offs = Inc(@)]
            ELSE loc
  /\ stopFor' = NoThread
  /\ pc' = [pc EXCEPT ![Main] = "idle"]
  /\ Release(Main)
  /\ UNCHANGED <<call, current_progression, play_thread, play_flag, ctl, edits,
                 highlight>>

\* on_close up to the join
OnClose ==
  /\ MainIs("idle")
  /\ play_flag' = FALSE
  /\ pc' = [pc EXCEPT ![Main] = IF WorkerAlive THEN "close_join" ELSE "close_lock"]
  /\ UNCHANGED <<call, current_progression, play_thread, ctl, edits, stopFor, highlight,
                 loc, lock, sinkVars>>

\* play_thread.join(timeout=1.0) returns: the worker ended or the second is over
CloseJoin ==
  /\ MainIs("close_join")
  /\ pc' = [pc EXCEPT ![Main] = "close_lock"]
  /\ UNCHANGED <<appVars, highlight, loc, lock, sinkVars>>

\* on_close: MIDI.close() inside the lock, then the settings and root.destroy()
CloseBody ==
  /\ MainIs("close_cs")
  /\ SinkClose
  /\ pc' = [pc EXCEPT ![Main] = "closed"]
  /\ Release(Main)
  /\ UNCHANGED <<appVars, highlight, loc>>

(***************************************************************************)
(* The program                                                             *)
(***************************************************************************)
Next ==
  \/ OnGenerate
  \/ SetControl
  \/ OnPlay
  \/ DismissInfo
  \/ PreviewClick
  \/ OnStop
  \/ StopAllNotesOff
  \/ OnClose
  \/ CloseJoin
  \/ CloseBody
  \/ \E t \in Threads : Acquire(t)
  \/ \E t \in Players : EnsureMidiOpen(t)
  \/ \E t \in Players : OpenBody(t)
  \/ \E w \in Workers : WSnapshot(w)
  \/ \E w \in Workers : WWhile(w)
  \/ \E w \in Workers : WFor(w)
  \/ \E w \in Workers : WVoice(w)
  \/ \E w \in Workers : WBlockNoteOn(w)
  \/ \E w \in Workers : WBlockNoteOff(w)
  \/ \E w \in Workers : WArpCheck(w)
  \/ \E w \in Workers : WArpNoteOn(w)
  \/ \E w \in Workers : WArpNoteOff(w)
  \/ \E w \in Workers : WFinalOff(w)
  \/ \E p \in Previews : PvVoice(p)
  \/ \E p \in Previews : PvNoteOn(p)
  \/ \E p \in Previews : PvNoteOff(p)

Spec == Init /\ [][Next]_vars

\* the program when no chord button is pressed: the main thread and the workers
SessionNext ==
  \/ OnGenerate
  \/ SetControl
  \/ OnPlay
  \/ DismissInfo
  \/ OnStop
  \/ StopAllNotesOff
  \/ OnClose
  \/ CloseJoin
  \/ CloseBody
  \/ \E t \in Workers \cup {Main} : Acquire(t)
  \/ \E w \in Workers : EnsureMidiOpen(w)
  \/ \E w \in Workers : OpenBody(w)
  \/ \E w \in Workers : WSnapshot(w)
  \/ \E w \in Workers : WWhile(w)
  \/ \E w \in Workers : WFor(w)
  \/ \E w \in Workers : WVoice(w)
  \/ \E w \in Workers : WBlockNoteOn(w)
  \/ \E w \in Workers : WBlockNoteOff(w)
  \/ \E w \in Workers : WArpCheck(w)
  \/ \E w \in Workers : WArpNoteOn(w)
  \/ \E w \in Workers : WArpNoteOff(w)
  \/ \E w \in Workers : WFinalOff(w)

SessionSpec == Init /\ [][SessionNext]_vars

MaxSessionBars == 2   \* largest bar count entered before Generate in a long session

\* on_generate with a bar count up to MaxSessionBars, so that the stored
\* progression has several chords and Generate can store a different one
OnGenerateBars ==
  /\ MainIs("idle")
  /\ \E key \in GenKeys, style \in GenStyles, bars \in 1..MaxSessionBars :
       \E progression \in generate_progression(key, style, bars) :
         current_progression' = progression
  /\ UNCHANGED <<call, play_thread, play_flag, ctl, edits, stopFor, highlight, pc, loc,
                 lock, sinkVars>>

\* the main thread and the workers, the progressions several chords long
LongSessionNext ==
  \/ OnGenerateBars
  \/ SetControl
  \/ OnPlay
  \/ DismissInfo
  \/ OnStop
  \/ StopAllNotesOff
  \/ OnClose
  \/ CloseJoin
  \/ CloseBody
  \/ \E t \in Workers \cup {Main} : Acquire(t)
  \/ \E w \in Workers : EnsureMidiOpen(w)
  \/ \E w \in Workers : OpenBody(w)
  \/ \E w \in Workers : WSnapshot(w)
  \/ \E w \in Workers : WWhile(w)
  \/ \E w \in Workers : WFor(w)
  \/ \E w \in Workers : WVoice(w)
  \/ \E w \in Workers : WBlockNoteOn(w)
  \/ \E w \in Workers : WBlockNoteOff(w)
  \/ \E w \in Workers : WArpCheck(w)
  \/ \E w \in Workers : WArpNoteOn(w)
  \/ \E w \in Workers : WArpNoteOff(w)
  \/ \E w \in Workers : WFinalOff(w)

LongSessionSpec == Init /\ [][LongSessionNext]_vars

(***************************************************************************)
(* The music logic on its own: one call of roman_to_chord,                 *)
(* generate_progression or chord_to_midi_notes on given arguments          *)
(***************************************************************************)
MaxGenBars   == 9   \* largest bar count given to generate_progression
MaxShift     == 6   \* largest octave shift, up or down, given to the voicing
MaxInversion == 5   \* largest inversion count given to the voicing

\* degree tokens: the table's, seventh forms, and tokens the table lacks
RomanTokens ==
  DictKeys(ROMAN_TO_INDEX) \cup
    { <<"V","7">>, <<"i","i","7">>, <<"v","i","i",Deg,"7">>, <<"v","i","i">>,
      <<"X">>, <<"7">>, <<>> }

\* key names: the table's, and names the table lacks
KeyNames == DictKeys(DIATONIC_MAJOR) \cup { <<"H">>, <<"c">>, <<>> }

StyleNames == {"Pop", "Rock", "Ballad", "Blues", "Jazz"}

GenerateKeys == { <<"C">>, <<"F","#">>, <<"H">> }

\* every chord name generate_progression can return
TableChords ==
  UNION { {DIATONIC_MAJOR[r][2][j] : j \in 1..Len(DIATONIC_MAJOR[r][2])} :
            r \in 1..Len(DIATONIC_MAJOR) }

\* chord names given to the voicing: the generator's, their seventh forms,
\* major and major-seventh names, and names with no known root
VoiceChords ==
  TableChords \cup { c \o <<"7">> : c \in TableChords } \cup
    { <<"C","m","a","j">>, <<"C","m","a","j","7">>, <<"C","M","7">>,
      <<"B","b","m","a","j","7">>, <<"X","y","z">>, <<"H">>, <<"#">>,
      <<"m">>, <<>> }

MusicCalls ==
  { [NoCall EXCEPT !.op = "roman_to_chord", !.roman = r, !.key = k] :
      r \in RomanTokens, k \in KeyNames } \cup
  { [NoCall EXCEPT !.op = "generate_progression", !.key = k, !.style = st,
                   !.bars = n] :
      k \in GenerateKeys, st \in StyleNames, n \in 1..MaxGenBars } \cup
  { [NoCall EXCEPT !.op = "chord_to_midi_notes", !.chord = c, !.octave = s,
                   !.inversion = v] :
      c \in VoiceChords, s \in (-MaxShift)..MaxShift, v \in 0..MaxInversion }

MusicInit == ProgramInit /\ call \in MusicCalls

programVars ==
  <<current_progression, play_thread, play_flag, ctl, edits, highlight, stopFor,
    pc, loc, initialized, output, device_id, lock, openHandles, sounding, stuck>>

\* roman_to_chord(roman, key)
ResolveRoman ==
  /\ call.op = "roman_to_chord" /\ ~call.done
  /\ call' = [call EXCEPT !.out = roman_to_chord(call.roman, call.key),
                          !.done = TRUE]
  /\ UNCHANGED programVars

\* generate_progression(key, style, bars), random.choice picking the pattern
Generate ==
  /\ call.op = "generate_progression" /\ ~call.done
  /\ \E pattern \in StylePatterns(call.style) :
       call' = [call EXCEPT !.pattern = pattern,
                            !.out = ProgressionFrom(pattern, call.key, call.bars, <<>>),
                            !.done = TRUE]
  /\ UNCHANGED programVars

\* the voicing of lines 419 and 488 for a chord name and the two controls
Voice ==
  /\ call.op = "chord_to_midi_notes" /\ ~call.done
  /\ call' = IF voice_raises(call.chord)
             THEN [call EXCEPT !.raised = TRUE, !.done = TRUE]
             ELSE [call EXCEPT !.out = CallerVoicing(call.chord, call.octave,
                                                    call.inversion),
                               !.done = TRUE]
  /\ UNCHANGED programVars

MusicNext == ResolveRoman \/ Generate \/ Voice

MusicSpec == MusicInit /\ [][MusicNext]_vars

AliveWorkers == {w \in Workers : IsAlive(w)}

(***************************************************************************)
(* Claims                                                                  *)
(***************************************************************************)
\* C1: a play request starts a worker exactly when the stored progression is
\* non-empty and no worker is alive; at most one worker is alive at any time;
\* a play request made while a worker is alive changes nothing (no new worker,
\* play_flag, play_thread and every worker's position and locals untouched).
C1_PlayStartsOneWorker ==
  /\ [](Cardinality(AliveWorkers) <= 1)
  /\ [][ /\ (AliveWorkers' \ AliveWorkers # {}) <=>
              (OnPlay /\ current_progression # <<>> /\ AliveWorkers = {})
         /\ (OnPlay /\ AliveWorkers # {}) =>
              /\ UNCHANGED <<play_flag, play_thread, loc, current_progression>>
              /\ \A w \in Workers : pc'[w] = pc[w] ]_vars

\* C1 witness: a second play was refused (its dialog is open) while the worker
\* of the first is alive.
C1_Witness ==
  /\ MainIs("msg_already_playing")
  /\ Cardinality(AliveWorkers) = 1
  /\ play_flag

\* C2: when stop arrived while the worker was inside the arpeggio's note loop,
\* then once the worker has left the loop (and once it has ended) every
\* note_on it sent to the sink was followed by a note_off for the same pitch.
C2_NoUnmatchedNoteOn ==
  \A w \in Workers :
    (pc[w] \in {"fin_off", "fin_off_cs", "done"} /\ loc[w].stop_mid_arp)
      => loc[w].held = EmptyBag

\* C2 witness: a worker that was stopped mid-arpeggio has ended.
C2_Witness ==
  \E w \in Workers :
    pc[w] = "done" /\ loc[w].stop_mid_arp /\ loc[w].held = EmptyBag /\ loc[w].offs = 1

C5_OneNoteOnAfterStop ==
  \A w \in Workers : loc[w].stopped => loc[w].ons_after_stop <= 1

\* C6: the worker of one session, step by step
WorkerStep(w) ==
  \/ EnsureMidiOpen(w) \/ OpenBody(w) \/ WSnapshot(w) \/ WWhile(w) \/ WFor(w)
  \/ WVoice(w) \/ WBlockNoteOn(w) \/ WBlockNoteOff(w) \/ WArpCheck(w)
  \/ WArpNoteOn(w) \/ WArpNoteOff(w) \/ WFinalOff(w)

\* fair scheduling: a thread that can run does run, a thread waiting for the
\* lock gets it once it is free often enough, and the main thread leaves the
\* lock it has taken
SessionFairness ==
  /\ \A w \in Workers : WF_vars(WorkerStep(w)) /\ SF_vars(Acquire(w))
  /\ WF_vars(StopAllNotesOff)
  /\ WF_vars(CloseBody)

SessionLive == SessionSpec /\ SessionFairness

CsPcs == {CsPc(p) : p \in LockPcs}

C7_DeviceWritesSerialized ==
  /\ [](Cardinality(lock) <= 1)
  /\ [](\A t \in Threads : pc[t] \in CsPcs <=> t \in lock)
  /\ [][ <<output, device_id, openHandles, sounding, stuck>>' #
            <<output, device_id, openHandles, sounding, stuck>>
          => \E t \in lock : lock' = {} /\ pc'[t] # pc[t]
                              /\ \A u \in Threads \ {t} : pc'[u] = pc[u] ]_vars

\* C7 witness: a worker is inside the all_notes_off of its finally block while
\* a preview thread and the main thread (on_stop) wait for the lock.
C7_Witness ==
  \E w \in Workers, p \in Previews :
    /\ pc[w] = "fin_off_cs" /\ lock = {w}
    /\ pc[p] \in {"pv_on", "pv_off", "open_lock"}
    /\ MainIs("stop_off")
    /\ sounding # {}

\* C8: close, when a device is open, leaves no pitch sounding on the handle it
\* releases (all 128 pitches were sent note-off first), no handle, and the
\* sink uninitialized.
C8_CloseSilencesThenReleases ==
  [][ (MainIs("close_cs") /\ pc'[Main] = "closed" /\ output # NoHandle) =>
        /\ stuck' = {}
        /\ output' = NoHandle
        /\ openHandles' = {}
        /\ ~initialized' ]_vars

\* the parameters a worker plays its next chord with: the locals of lines
\* 473-479 once taken (the controls until then), and the controls line 488 reads
EffectiveParams(w) ==
  LET src == IF loc[w].snapped
             THEN [tempo_var |-> loc[w].tempo, play_style_var |-> loc[w].play_style,
                   loop_var |-> loc[w].loop, velocity_var |-> loc[w].vel,
                   humanize_var |-> loc[w].humanize]
             ELSE [tempo_var |-> ctl.tempo_var, play_style_var |-> ctl.play_style_var,
                   loop_var |-> ctl.loop_var, velocity_var |-> ctl.velocity_var,
                   humanize_var |-> ctl.humanize_var]
  IN  [tempo |-> src.tempo_var, play_style |-> src.play_style_var,
       loop |-> src.loop_var, vel |-> src.velocity_var, humanize |-> src.humanize_var,
       octave |-> ctl.octave_var * 12, inversion |-> ctl.inversion_var]

\* C9: while a worker is alive the parameters it plays with stay those in
\* force when play was requested, whatever control is changed meanwhile.
C9_ParametersFixedAtPlay ==
  [][ \A w \in Workers :
        (IsAlive(w) /\ IsAlive(w)') => EffectiveParams(w)' = EffectiveParams(w) ]_vars

\* C10: the sink holds at most one open device handle, the one in `output`;
\* a handle that open_output replaced is closed.
C10_AtMostOneOpenHandle ==
  /\ Cardinality(openHandles) <= 1
  /\ openHandles = IF output = NoHandle THEN {} ELSE {output}

\* C10 witness: the worker has opened a device and a preview thread is inside
\* open_output, about to replace the handle.
C10_Witness ==
  \E w \in Workers, p \in Previews :
    /\ pc[p] = "open_cs"
    /\ pc[w] \in {"snapshot", "while", "for", "voice"}
    /\ output # NoHandle /\ openHandles = {output}

\* the positions inside note_on, note_off and all_notes_off
NoteCsPcs == {"blk_on_cs", "blk_off_cs", "arp_on_cs", "arp_off_cs", "fin_off_cs",
              "stop_off_cs"}

\* C11: open_output returns to its caller, which goes on, with the sink either
\* holding the requested device or holding none (no handle open); while the
\* sink holds none, note_on, note_off and all_notes_off change nothing on any
\* device and their caller goes on as usual (no exception path); a worker
\* playing without a device leaves a non-looping, unstopped session after
\* exactly one pass through the progression.
C11_FailedOpenIsSilent ==
  [][ /\ \A t \in Workers :
           (pc[t] = "open_cs" /\ pc'[t] # "open_cs") =>
             /\ pc'[t] = AfterEnsure(t)
             /\ \/ output' = NoHandle /\ openHandles' = {}
                \/ output' \in openHandles' /\ device_id' = loc[t].target
      /\ \A t \in Workers \cup {Main} :
           (output = NoHandle /\ pc[t] \in NoteCsPcs /\ pc'[t] # pc[t]) =>
             /\ UNCHANGED <<output, openHandles, sounding, device_id>>
             /\ t \in Workers => ~loc'[t].raised
             /\ pc'[t] \in {"blk_on", "blk_off", "for", "arp_off", "arp_chk",
                            "done", "idle"}
      /\ \A w \in Workers :
           (pc[w] # "fin_off" /\ pc'[w] = "fin_off" /\ output = NoHandle
              /\ ~loc'[w].raised /\ ~loc'[w].loop /\ play_flag') =>
             loc'[w].passes = 1 ]_vars

\* C11 witness: the open made for a session failed (no other thread opens or
\* closes here) and the worker has walked the progression once, every note
\* dropped, and is leaving through its finally block.
C11_Witness ==
  \E w \in Workers :
    /\ pc[w] = "fin_off_cs" /\ loc[w].passes = 1 /\ ~loc[w].raised /\ play_flag
    /\ output = NoHandle /\ openHandles = {} /\ sounding = {}
    /\ MainIs("idle")

\* C12: a stop request made while no worker is alive starts and ends nothing
\* (no worker appears or leaves, the stored progression and the play thread
\* stay) and its all_notes_off sends nothing to the device: what sounds on the
\* device is what sounded before.
C12_IdleStopIsIgnored ==
  [][ /\ (MainIs("idle") /\ pc'[Main] = "stop_off" /\ AliveWorkers = {}) =>
           /\ UNCHANGED <<current_progression, play_thread, sinkVars>>
           /\ AliveWorkers' = {}
      /\ (MainIs("stop_off_cs") /\ pc'[Main] = "idle" /\ stopFor = NoThread) =>
           UNCHANGED <<sounding, output, openHandles>> ]_vars

\* C13: for every key of the diatonic table and every token of the degree
\* table, roman_to_chord returns the chord at the token's degree index in the
\* key's row (so two spellings of one degree give the same chord).
C13_DegreeTokenResolves ==
  (call.op = "roman_to_chord" /\ call.done
     /\ call.roman \in DictKeys(ROMAN_TO_INDEX)
     /\ call.key \in DictKeys(DIATONIC_MAJOR))
    => call.out = DictGet(DIATONIC_MAJOR, call.key, <<>>)
                    [DictGet(ROMAN_TO_INDEX, call.roman, 0) + 1]

\* the pattern lists of a style as COMMON_PATTERNS spells them
PatternsOf(style) ==
  LET hits == {i \in 1..Len(COMMON_PATTERNS) : COMMON_PATTERNS[i][1] = style}
  IN  UNION { {COMMON_PATTERNS[i][2][j] : j \in 1..Len(COMMON_PATTERNS[i][2])} :
                i \in hits }

\* C14: generate_progression returns exactly `bars` chords, chord i being
\* roman_to_chord(pattern[i mod L], key) for the pattern of length L it chose;
\* the pattern is one of the style's, or one of Pop's for an unknown style.
C14_GenerateCyclesPattern ==
  (call.op = "generate_progression" /\ call.done) =>
    LET L == Len(call.pattern)
    IN  /\ Len(call.out) = call.bars
        /\ \A i \in 0..(call.bars - 1) :
             call.out[i + 1] = roman_to_chord(call.pattern[(i % L) + 1], call.key)
        /\ call.pattern \in
             (IF PatternsOf(call.style) # {} THEN PatternsOf(call.style)
              ELSE PatternsOf("Pop"))

\* C14 witness: nine bars were generated from the eight-token Blues pattern,
\* the ninth chord being the pattern's first again.
C14_Witness ==
  /\ call.op = "generate_progression" /\ call.done
  /\ call.style = "Blues" /\ Len(call.pattern) = 8 /\ call.bars = 9
  /\ Len(call.out) = 9 /\ call.out[9] = call.out[1]

\* a voicing call that returned
Voiced == call.op = "chord_to_midi_notes" /\ call.done /\ ~call.raised

\* C15: for any chord symbol (root and suffix, known or not), any octave shift
\* up or down and any inversion count >= 0, every pitch of the voicing is an
\* integer in 0..127 and the voicing has as many pitches as the chord's
\* interval set.
C15_PitchesInMidiRange ==
  Voiced =>
    /\ \A j \in 1..Len(call.out) : call.out[j] \in 0..127
    /\ Len(call.out) = Len(ChordIntervals(parse_chord_name(call.chord)[2]))
    /\ Len(call.out) \in {3, 4}

\* C15 witness: a seventh chord shifted far down and inverted: its lowest
\* pitches were clamped to 0, its highest was not.
C15_Witness ==
  /\ Voiced /\ call.octave < 0 /\ call.inversion > 0
  /\ Len(call.out) = 4 /\ call.out[1] = 0 /\ call.out[4] > 0

\* the pitches of a chord before inversion and clamping: the root's table
\* pitch (60 when the table lacks the root), twelve per unit of octave shift,
\* and each interval of the chord's quality
RootPosition(chord, shift) ==
  LET parsed == parse_chord_name(chord)
      iv     == ChordIntervals(parsed[2])
  IN  [j \in 1..Len(iv) |-> DictGet(NOTE_TO_MIDI, parsed[1], 60) + 12 * shift + iv[j]]

\* C16 (as claimed): with inversion = the number of pitches, the voicing is
\* the inversion-0 voicing with every pitch raised by exactly 12, in order.
C16_FullInversionIsOctaveUp ==
  (Voiced /\ call.inversion = Len(call.out)) =>
    LET root0 == CallerVoicing(call.chord, call.octave, 0)
    IN  call.out = [j \in 1..Len(root0) |-> root0[j] + 12]

\* C16 (amended): with inversion = the number of pitches, the voicing is, in
\* order, each unclamped inversion-0 pitch raised by 12 and then clamped into
\* 0..127; it is the inversion-0 voicing raised by exactly 12 whenever every
\* unclamped inversion-0 pitch is in 0..115.
C16_FullInversionClamped ==
  (Voiced /\ call.inversion = Len(call.out)) =>
    LET base  == RootPosition(call.chord, call.octave)
        root0 == CallerVoicing(call.chord, call.octave, 0)
    IN  /\ Len(base) = Len(call.out)
        /\ \A j \in 1..Len(base) :
             call.out[j] = (IF base[j] + 12 < 0 THEN 0
                            ELSE IF base[j] + 12 > 127 THEN 127 ELSE base[j] + 12)
        /\ (\A j \in 1..Len(base) : base[j] \in 0..115) =>
             call.out = [j \in 1..Len(root0) |-> root0[j] + 12]

\* C16 witness: a triad at inversion 3 with no pitch clamped, an octave above
\* its inversion-0 voicing.
C16_Witness ==
  /\ Voiced /\ call.inversion = 3 /\ Len(call.out) = 3 /\ call.octave = 1
  /\ call.out = [j \in 1..3 |-> CallerVoicing(call.chord, 1, 0)[j] + 12]
  /\ call.out[3] < 127

\* pitch j of `base` after k times "remove the first pitch, append it raised by
\* 12": the pitch that started k places further on (cyclically), raised by 12
\* once for every time it was moved
Rotated(base, k, j) ==
  LET n    == Len(base)
      from == (j - 1 + k) % n
  IN  base[from + 1] + 12 * ((k \div n) + (IF from < k % n THEN 1 ELSE 0))

\* C17: the voicing at inversion k is the root position with "remove the first
\* pitch, append it raised by 12" applied k times (then clamped); so
\* voice("Am",0,0) = [69,72,76] and voice("C",0,1) = [64,67,72]; for a triad
\* the rotation goes on past 3: four rotations are one rotation raised by 12.
C17_InversionRotates ==
  Voiced =>
    LET base == RootPosition(call.chord, call.octave)
    IN  /\ Len(call.out) = Len(base)
        /\ \A j \in 1..Len(base) :
             LET r == Rotated(base, call.inversion, j)
             IN  call.out[j] = (IF r < 0 THEN 0 ELSE IF r > 127 THEN 127 ELSE r)
        /\ (call.chord = <<"A","m">> /\ call.octave = 0 /\ call.inversion = 0)
             => call.out = <<69, 72, 76>>
        /\ (call.chord = <<"C">> /\ call.octave = 0 /\ call.inversion = 1)
             => call.out = <<64, 67, 72>>
        /\ Len(base) = 3 =>
             Invert(base, 4) = [j \in 1..3 |-> Invert(base, 1)[j] + 12]

\* C17 witness: C at inversion 4 is C at inversion 1, [64,67,72], raised by 12.
C17_Witness ==
  /\ Voiced /\ call.chord = <<"C">> /\ call.octave = 0 /\ call.inversion = 4
  /\ call.out = <<76, 79, 84>>

\* C18: roman_to_chord returns a chord for any token and key: against the row
\* of C for a key the table lacks, and the row's first chord for a token the
\* table lacks; the voicing of any chord name returns without raising, built
\* on pitch 60 when the table lacks the root.
C18_BadInputNeverRaises ==
  /\ (call.op = "roman_to_chord" /\ call.done) =>
       LET row == DictGet(DIATONIC_MAJOR,
                          IF call.key \in DictKeys(DIATONIC_MAJOR) THEN call.key
                          ELSE <<"C">>, <<>>)
       IN  /\ call.out # <<>>
           /\ call.key \notin DictKeys(DIATONIC_MAJOR) =>
                call.out = roman_to_chord(call.roman, <<"C">>)
           /\ call.roman \in { <<"X">>, <<"v","i","i">>, <<>> } => call.out = row[1]
  /\ (call.op = "chord_to_midi_notes" /\ call.done) =>
       /\ ~call.raised
       /\ LET parsed == parse_chord_name(call.chord)
          IN  parsed[1] \notin DictKeys(NOTE_TO_MIDI) =>
                call.out = CallerVoicing(<<"C">> \o parsed[2], call.octave,
                                         call.inversion)

\* a voicing call at inversion 0 and octave shift 0, where the pitches are the
\* root's pitch plus the intervals, none clamped
VoicedPlain == Voiced /\ call.inversion = 0 /\ call.octave = 0

\* the intervals of a voicing above its first pitch
IntervalsOf(notes) == [j \in 1..Len(notes) |-> notes[j] - notes[1]]

HasChar(suffix, c) == \E i \in 1..Len(suffix) : suffix[i] = c

\* C19 (as claimed): a suffix containing 'm' and no '7' gives [0,3,7];
\* otherwise one containing '7' gives [0,4,7,11] if it marks major-seventh
\* ('maj' or 'M'), [0,3,7,10] if it marks minor ('m'), [0,4,7,10] otherwise;
\* every other suffix gives [0,4,7].
C19_QualityPriority ==
  VoicedPlain =>
    LET suffix == parse_chord_name(call.chord)[2]
        major7 == HasChar(suffix, "M") \/
                  \E i \in 1..(Len(suffix) - 2) :
                    SubSeq(suffix, i, i + 2) = <<"m","a","j">>
    IN  IntervalsOf(call.out) =
          (IF HasChar(suffix, "m") /\ ~HasChar(suffix, "7") THEN <<0, 3, 7>>
           ELSE IF HasChar(suffix, "7")
                THEN (IF major7 THEN <<0, 4, 7, 11>>
                      ELSE IF HasChar(suffix, "m") THEN <<0, 3, 7, 10>>
                      ELSE <<0, 4, 7, 10>>)
                ELSE <<0, 4, 7>>)

\* C19 (amended): suffix by suffix: none [0,4,7], 'm' [0,3,7], 'dim' [0,3,7],
\* '7' [0,4,7,10], 'm7' [0,3,7,10], 'dim7' [0,3,7,10], 'maj7' and 'M7'
\* [0,4,7,11], and 'maj' (an 'm', no '7') [0,4,7], not [0,3,7]: the minor
\* triad needs an 'm' outside 'maj'; a suffix with none of these marks [0,4,7].
C19_QualityBySuffix ==
  VoicedPlain =>
    LET suffix == parse_chord_name(call.chord)[2]
        iv     == IntervalsOf(call.out)
    IN  /\ suffix = <<>>                    => iv = <<0, 4, 7>>
        /\ suffix = <<"m">>                 => iv = <<0, 3, 7>>
        /\ suffix = <<"d","i","m">>         => iv = <<0, 3, 7>>
        /\ suffix = <<"7">>                 => iv = <<0, 4, 7, 10>>
        /\ suffix = <<"m","7">>             => iv = <<0, 3, 7, 10>>
        /\ suffix = <<"d","i","m","7">>     => iv = <<0, 3, 7, 10>>
        /\ suffix = <<"m","a","j","7">>     => iv = <<0, 4, 7, 11>>
        /\ suffix = <<"M","7">>             => iv = <<0, 4, 7, 11>>
        /\ suffix = <<"m","a","j">>         => iv = <<0, 4, 7>>
        /\ suffix = <<"y","z">>             => iv = <<0, 4, 7>>
        /\ suffix \in { <<>>, <<"m">>, <<"d","i","m">>, <<"7">>, <<"m","7">>,
                         <<"d","i","m","7">>, <<"m","a","j","7">>, <<"M","7">>,
                         <<"m","a","j">>, <<"y","z">> }

\* C19 witness: 'Cmaj' was voiced as the major triad on C.
C19_Witness ==
  VoicedPlain /\ call.chord = <<"C","m","a","j">> /\ call.out = <<60, 64, 67>>

\* C20: for octave-shift control value s the root pitch is the table's pitch
\* for the root plus 12 * s; the intervals are added to that unclamped root
\* (at inversion 0 pitch j is the clamp of root + 12 s + interval j); the clamp
\* is applied once, to the rotated unclamped pitches; and a pitch that is not
\* at a limit is 12 above the pitch the shift s - 1 gives. The worker (line
\* 488) and the preview (line 419) both voice with CallerVoicing.
C20_ShiftThenIntervalsThenClamp ==
  Voiced =>
    LET parsed == parse_chord_name(call.chord)
        root   == DictGet(NOTE_TO_MIDI, parsed[1], 60) + 12 * call.octave
        iv     == ChordIntervals(parsed[2])
        raw    == Invert([j \in 1..Len(iv) |-> root + iv[j]], call.inversion)
        below  == CallerVoicing(call.chord, call.octave - 1, call.inversion)
    IN  /\ Len(call.out) = Len(iv)
        /\ \A j \in 1..Len(iv) :
             /\ call.inversion = 0 =>
                  call.out[j] = (IF root + iv[j] < 0 THEN 0
                                 ELSE IF root + iv[j] > 127 THEN 127
                                 ELSE root + iv[j])
             /\ call.out[j] = (IF raw[j] < 0 THEN 0
                               ELSE IF raw[j] > 127 THEN 127 ELSE raw[j])
             /\ call.out[j] \in 12..126 => below[j] = call.out[j] - 12

\* C20 witness: C shifted six octaves down at inversion 2: the unclamped
\* pitches -12, -8, -5 rotate to -5, 0, 4 and are clamped last, to 0, 0, 4
\* (a clamp before the intervals or before the rotation gives other pitches).
C20_Witness ==
  /\ Voiced /\ call.chord = <<"C">> /\ call.octave = -6 /\ call.inversion = 2
  /\ call.out = <<0, 0, 4>>

\* the positions of a worker between the highlight of chord i and the last
\* note_off of chord i
ChordPcs == {"voice", "blk_on", "blk_on_cs", "blk_off", "blk_off_cs",
             "arp_chk", "arp_on", "arp_on_cs", "arp_off", "arp_off_cs"}

\* the positions of a worker before it leaves the loop
LoopPcs == ChordPcs \cup {"ensure", "open_lock", "open_cs", "snapshot", "while", "for"}

\* C21: while the worker is between the highlight of chord i and the last
\* note_off of chord i, index i is the last request posted, and no pitch is
\* held when the worker is about to post or has just posted (the post comes
\* before every note_on of the chord); having posted, the worker's next steps
\* are enabled whatever the main thread is doing (it waits for the sink's lock
\* only); the worker is about to post 0 at the start of the session (nothing
\* or a clearing posted last) and of a later pass (n-1 posted last), and i
\* with i-1 posted last otherwise; the clearing is posted once, on leaving the
\* loop, and is the last request posted until the session is over.
C21_HighlightBeforeNotes ==
  \A w \in Workers :
    /\ pc[w] \in ChordPcs => highlight = [kind |-> "chord", idx |-> loc[w].i]
    /\ pc[w] \in {"for", "voice"} => loc[w].held = EmptyBag
    /\ (pc[w] = "for" /\ loc[w].i > 0) =>
         highlight = [kind |-> "chord", idx |-> loc[w].i - 1]
    /\ (pc[w] = "for" /\ loc[w].i = 0) =>
         IF loc[w].passes = 0 THEN highlight.kind # "chord"
         ELSE highlight = [kind |-> "chord", idx |-> Len(loc[w].progression) - 1]
    /\ (pc[w] \in ChordPcs \cup {"for"}) => loc[w].i <= Len(loc[w].progression)
    /\ pc[w] \in ChordPcs => loc[w].i < Len(loc[w].progression)
    /\ pc[w] \in {"fin_off", "fin_off_cs"} =>
         highlight.kind = "clear" /\ loc[w].clears = 1
    /\ pc[w] \in LoopPcs => loc[w].clears = 0
    /\ pc[w] = "voice" => ENABLED WVoice(w)
    /\ pc[w] = "arp_chk" => ENABLED WArpCheck(w)
    /\ (pc[w] \in {"blk_on", "arp_on"} /\ lock = {}) => ENABLED Acquire(w)
    /\ pc[w] = "blk_on_cs" => ENABLED WBlockNoteOn(w)
    /\ pc[w] = "arp_on_cs" => ENABLED WArpNoteOn(w)

\* C21 witness: a looping session on a two-chord progression is in its second
\* pass: index 1 is posted (after 0, 1, 0), no pitch of the chord is sent yet,
\* and the main thread sits in the dialog of a refused play request.
C21_Witness ==
  \E w \in Workers :
    /\ pc[w] = "blk_on_cs" /\ loc[w].k = 1 /\ loc[w].held = EmptyBag
    /\ Len(loc[w].progression) = 2 /\ loc[w].loop
    /\ loc[w].passes = 1 /\ loc[w].i = 1
    /\ highlight = [kind |-> "chord", idx |-> 1]
    /\ MainIs("msg_already_playing")

\* the chord sequence the session of worker w walks: its copy of line 475 once
\* taken, and until then the stored progression the copy will be taken from
PlayedProgression(w) ==
  IF loc[w].snapped THEN loc[w].progression ELSE current_progression

\* C22: a generate request made while a worker is alive replaces the stored
\* progression and leaves every worker's position and locals as they are, and
\* as long as the worker is alive the chord sequence its session walks is the
\* one stored when the session started, whatever is generated meanwhile.
C22_GenerateLeavesSessionAlone ==
  [][ \A w \in Workers :
        (IsAlive(w) /\ IsAlive(w)') =>
          /\ current_progression' # current_progression =>
               (loc'[w] = loc[w] /\ pc'[w] = pc[w])
          /\ PlayedProgression(w)' = PlayedProgression(w) ]_vars

\* C23: once on_close has run MIDI.close(), the sink stays closed whatever the
\* threads still running do: the MIDI subsystem is not initialized again, no
\* device handle is opened, and no pitch is made to sound.
C23_ClosedSinkStaysClosed ==
  [][ MainIs("closed") =>
        /\ UNCHANGED <<initialized, output, openHandles, sounding>>
        /\ ~initialized' /\ output' = NoHandle /\ openHandles' = {}
        /\ sounding' = {} ]_vars

====
